---- MODULE Spec2Model ----
(***************************************************************************)
(* Route collection store and persistence policy of route-visualizer.      *)
(*                                                                         *)
(* The model follows src/src/hooks/useRoutes.ts (the useRoutes hook: the   *)
(* route collection, the selection and addRoute / updateRoute /            *)
(* deleteRoute), src/src/lib/api.ts (createRoute / updateRoute /           *)
(* deleteRoute / fetchRoutes: what the transport layer answers before and  *)
(* after the network request), src/src/lib/auth.ts (the token) and the     *)
(* page handlers of src/unnamed/part_006 that call the hook.               *)
(*                                                                         *)
(* Conventions.                                                            *)
(*  - A JavaScript string that the code inspects (ids, names, messages) is *)
(*    a sequence of one-character strings, so that startsWith, includes,   *)
(*    toLowerCase, trim and length are computed as the code computes them. *)
(*  - An optional value (undefined / null) is None == <<>>, a present      *)
(*    value v is Some(v) == <<v>>.                                         *)
(*  - The hook's status flag (idle / loading / success / error) decides    *)
(*    nothing in the store or in the persistence policy and is left out.   *)
(*  - Every synchronous block of a handler (up to its await, and from the  *)
(*    resumption to the return) is one action; React has re-rendered       *)
(*    between two actions, so closures see the current state.              *)
(*  - Distances are whole metres (the haversine value rounded); durations  *)
(*    are kept in milliseconds so that (metres / 1000) * 72 is integral.   *)
(***************************************************************************)
EXTENDS Integers, Sequences, FiniteSets, Bags, TLC

VARIABLES
    routes,         \* useRoutes: const [routes, setRoutes]
    selectedRoute,  \* useRoutes: const [selectedRoute, setSelectedRoute]
    token,          \* auth.ts: localStorage TOKEN_KEY is set
    pending,        \* bag of requests the network has not answered yet
    ev,             \* what the last step did: notifier calls, auth prompts, result
    isDrawing,      \* page: const [isDrawing, setIsDrawing]
    drawnPoints,    \* page: const [drawnPoints, setDrawnPoints]
    isEditing,      \* page: const [isEditing, setIsEditing]
    editPoints      \* page: const [editPoints, setEditPoints]

\* the state of the page that uses the hook
page == <<isDrawing, drawnPoints, isEditing, editPoints>>

vars == <<routes, selectedRoute, token, pending, ev, page>>

(***************************************************************************)
(* Bounds.                                                                 *)
(***************************************************************************)
\* the collection holds at most MaxRoutes routes in ServiceIdSpec
MaxRoutes == 3

\* the drawing and the edit buffer hold at most MaxPoints entries
MaxPoints == 3

\* at most MaxOverlap updates are in flight at once in OverlapSpec
MaxOverlap == 2

\* at most MaxPending requests are in flight at once
MaxPending == 1

(***************************************************************************)
(* String literals of the source, as character sequences.                  *)
(***************************************************************************)
\* "local-"
LOCAL_PREFIX ==
    <<"l", "o", "c", "a", "l", "-">>

\* "Not authenticated. Please log in again."
MSG_NOT_AUTHENTICATED ==
    <<"N", "o", "t", " ", "a", "u", "t", "h", "e", "n", "t", "i", "c", "a", "t", "e", "d", ".", " ", "P", "l", "e", "a", "s", "e", " ", "l", "o", "g", " ", "i", "n", " ", "a", "g", "a", "i", "n", ".">>

\* "Session expired (401). Please log in again."
MSG_SESSION_EXPIRED_401 ==
    <<"S", "e", "s", "s", "i", "o", "n", " ", "e", "x", "p", "i", "r", "e", "d", " ", "(", "4", "0", "1", ")", ".", " ", "P", "l", "e", "a", "s", "e", " ", "l", "o", "g", " ", "i", "n", " ", "a", "g", "a", "i", "n", ".">>

\* "Session expired. Please log in again."
MSG_SESSION_EXPIRED_DELETE ==
    <<"S", "e", "s", "s", "i", "o", "n", " ", "e", "x", "p", "i", "r", "e", "d", ".", " ", "P", "l", "e", "a", "s", "e", " ", "l", "o", "g", " ", "i", "n", " ", "a", "g", "a", "i", "n", ".">>

\* "Access denied. Admin or Staff role required."
MSG_ACCESS_DENIED ==
    <<"A", "c", "c", "e", "s", "s", " ", "d", "e", "n", "i", "e", "d", ".", " ", "A", "d", "m", "i", "n", " ", "o", "r", " ", "S", "t", "a", "f", "f", " ", "r", "o", "l", "e", " ", "r", "e", "q", "u", "i", "r", "e", "d", ".">>

\* "Failed to create route"
MSG_FAILED_CREATE ==
    <<"F", "a", "i", "l", "e", "d", " ", "t", "o", " ", "c", "r", "e", "a", "t", "e", " ", "r", "o", "u", "t", "e">>

\* "Failed to update route"
MSG_FAILED_UPDATE ==
    <<"F", "a", "i", "l", "e", "d", " ", "t", "o", " ", "u", "p", "d", "a", "t", "e", " ", "r", "o", "u", "t", "e">>

\* "Failed to delete route"
MSG_FAILED_DELETE ==
    <<"F", "a", "i", "l", "e", "d", " ", "t", "o", " ", "d", "e", "l", "e", "t", "e", " ", "r", "o", "u", "t", "e">>

\* "Route name must be at least 3 characters"
MSG_NAME_TOO_SHORT ==
    <<"R", "o", "u", "t", "e", " ", "n", "a", "m", "e", " ", "m", "u", "s", "t", " ", "b", "e", " ", "a", "t", " ", "l", "e", "a", "s", "t", " ", "3", " ", "c", "h", "a", "r", "a", "c", "t", "e", "r", "s">>

\* "Region is required"
MSG_REGION_REQUIRED ==
    <<"R", "e", "g", "i", "o", "n", " ", "i", "s", " ", "r", "e", "q", "u", "i", "r", "e", "d">>

\* "Minimum altitude must be 0 or positive"
MSG_MIN_ALTITUDE ==
    <<"M", "i", "n", "i", "m", "u", "m", " ", "a", "l", "t", "i", "t", "u", "d", "e", " ", "m", "u", "s", "t", " ", "b", "e", " ", "0", " ", "o", "r", " ", "p", "o", "s", "i", "t", "i", "v", "e">>

\* "Maximum altitude must be positive"
MSG_MAX_ALTITUDE ==
    <<"M", "a", "x", "i", "m", "u", "m", " ", "a", "l", "t", "i", "t", "u", "d", "e", " ", "m", "u", "s", "t", " ", "b", "e", " ", "p", "o", "s", "i", "t", "i", "v", "e">>

\* "Difficulty level is required"
MSG_DIFFICULTY_REQUIRED ==
    <<"D", "i", "f", "f", "i", "c", "u", "l", "t", "y", " ", "l", "e", "v", "e", "l", " ", "i", "s", " ", "r", "e", "q", "u", "i", "r", "e", "d">>

\* "At least 2 coordinate points are required"
MSG_TWO_POINTS ==
    <<"A", "t", " ", "l", "e", "a", "s", "t", " ", "2", " ", "c", "o", "o", "r", "d", "i", "n", "a", "t", "e", " ", "p", "o", "i", "n", "t", "s", " ", "a", "r", "e", " ", "r", "e", "q", "u", "i", "r", "e", "d">>

\* "unauthorized"
MARK_UNAUTHORIZED ==
    <<"u", "n", "a", "u", "t", "h", "o", "r", "i", "z", "e", "d">>

\* "not authenticated"
MARK_NOT_AUTHENTICATED ==
    <<"n", "o", "t", " ", "a", "u", "t", "h", "e", "n", "t", "i", "c", "a", "t", "e", "d">>

\* "401"
MARK_401 ==
    <<"4", "0", "1">>

\* ". "
JOIN_SEP ==
    <<".", " ">>

\* "Failed to fetch"
MSG_FAILED_TO_FETCH ==
    <<"F", "a", "i", "l", "e", "d", " ", "t", "o", " ", "f", "e", "t", "c", "h">>

\* "Unauthorized"
MSG_SERVER_UNAUTHORIZED ==
    <<"U", "n", "a", "u", "t", "h", "o", "r", "i", "z", "e", "d">>

\* "User Not Authenticated"
MSG_SERVER_NOT_AUTHENTICATED ==
    <<"U", "s", "e", "r", " ", "N", "o", "t", " ", "A", "u", "t", "h", "e", "n", "t", "i", "c", "a", "t", "e", "d">>

\* "Internal Server Error"
MSG_SERVER_ERROR ==
    <<"I", "n", "t", "e", "r", "n", "a", "l", " ", "S", "e", "r", "v", "e", "r", " ", "E", "r", "r", "o", "r">>

\* "Test"
NAME_TEST ==
    <<"T", "e", "s", "t">>

\* "ab"
NAME_SHORT ==
    <<"a", "b">>

\* "   "
NAME_BLANK ==
    <<" ", " ", " ">>

\* "Updated Route"
NAME_UPDATED_ROUTE ==
    <<"U", "p", "d", "a", "t", "e", "d", " ", "R", "o", "u", "t", "e">>

\* "Custom"
REGION_CUSTOM ==
    <<"C", "u", "s", "t", "o", "m">>

\* "Khumbu"
REGION_KHUMBU ==
    <<"K", "h", "u", "m", "b", "u">>

\* "MODERATE"
DIFF_MODERATE ==
    <<"M", "O", "D", "E", "R", "A", "T", "E">>

\* "HARD"
DIFF_HARD ==
    <<"H", "A", "R", "D">>

\* a trek name of the form
TREK_EBC == <<"E", "B", "C">>

\* "Unknown"
ROAD_UNKNOWN ==
    <<"U", "n", "k", "n", "o", "w", "n">>

(***************************************************************************)
(* JavaScript helpers.                                                     *)
(***************************************************************************)
None == <<>>

Some(v) == <<v>>

IsSome(o) == o # <<>>

\* a ?? b
Coalesce(o, d) == IF o = <<>> THEN d ELSE o[1]

\* s || d for an optional string: undefined and "" are falsy
OrString(o, d) == IF o = <<>> THEN d ELSE IF o[1] = <<>> THEN d ELSE o[1]

\* n || d for an optional number: undefined, null and 0 are falsy
OrNumber(o, d) == IF o = <<>> THEN d ELSE IF o[1] = 0 THEN d ELSE o[1]

UpperLetters ==
    <<"A", "B", "C", "D", "E", "F", "G", "H", "I", "J", "K", "L", "M",
      "N", "O", "P", "Q", "R", "S", "T", "U", "V", "W", "X", "Y", "Z">>

LowerLetters ==
    <<"a", "b", "c", "d", "e", "f", "g", "h", "i", "j", "k", "l", "m",
      "n", "o", "p", "q", "r", "s", "t", "u", "v", "w", "x", "y", "z">>

LowerTable ==
    [c \in {UpperLetters[i] : i \in 1..Len(UpperLetters)} |->
        LowerLetters[CHOOSE i \in 1..Len(UpperLetters) : UpperLetters[i] = c]]

LowerChar(c) == IF c \in DOMAIN LowerTable THEN LowerTable[c] ELSE c

\* String.prototype.toLowerCase
ToLowerCase(s) == [i \in 1..Len(s) |-> LowerChar(s[i])]

\* String.prototype.includes
Includes(s, sub) ==
    \E i \in 0..(Len(s) - Len(sub)) : \A j \in 1..Len(sub) : s[i + j] = sub[j]

\* String.prototype.startsWith
StartsWith(s, prefix) ==
    /\ Len(s) >= Len(prefix)
    /\ \A j \in 1..Len(prefix) : s[j] = prefix[j]

\* String.prototype.trim, for the one whitespace character the model uses
RECURSIVE TrimLeft(_)
TrimLeft(s) == IF s # <<>> /\ Head(s) = " " THEN TrimLeft(Tail(s)) ELSE s

RECURSIVE TrimRight(_)
TrimRight(s) ==
    IF s # <<>> /\ s[Len(s)] = " " THEN TrimRight(SubSeq(s, 1, Len(s) - 1)) ELSE s

Trim(s) == TrimRight(TrimLeft(s))

\* Array.prototype.join
RECURSIVE Join(_, _)
Join(parts, sep) ==
    IF parts = <<>> THEN <<>>
    ELSE IF Len(parts) = 1 THEN parts[1]
    ELSE parts[1] \o sep \o Join(Tail(parts), sep)

\* Array.prototype.filter, by a set of kept indices
RECURSIVE FilterSeq(_, _)
FilterSeq(s, keep) ==
    IF s = <<>> THEN <<>>
    ELSE IF Len(s) \in keep
         THEN Append(FilterSeq(SubSeq(s, 1, Len(s) - 1), keep), s[Len(s)])
         ELSE FilterSeq(SubSeq(s, 1, Len(s) - 1), keep)

(***************************************************************************)
(* Geometry: Coordinates, calculateDistance, waypoint labels.              *)
(***************************************************************************)
Point(lat, lng) == [lat |-> lat, lng |-> lng]

PA == Point(0, 0)

PB == Point(0, 1)

PC == Point(1, 1)

\* the point lists a caller passes: the edit buffer's snapshot at save time
PointLists == {<<PA>>, <<PA, PB>>, <<PA, PB, PC>>}

\* (p) => [p.lng, p.lat]
ToLngLat(p) == <<p.lng, p.lat>>

\* FromLngLat with the pair read in the order of the fields
FromLngLat_Swapped(c) == Point(c[1], c[2])

\* ([lng, lat]) => ({ lat, lng })
FromLngLat(c) == Point(c[2], c[1])

\* One step of the loop of calculateDistance: 6371000 * c for the segment
\* p -> q, rounded to whole metres. On the one-degree grid the haversine
\* formula gives 111194.93 m along the equator and along a meridian,
\* 111177.99 m along the parallel of latitude 1, and 157249.38 m for the
\* diagonal of a cell.
SegmentMeters(p, q) ==
    LET dLat == IF p.lat >= q.lat THEN p.lat - q.lat ELSE q.lat - p.lat
        dLng == IF p.lng >= q.lng THEN p.lng - q.lng ELSE q.lng - p.lng
    IN  CASE dLat = 0 /\ dLng = 0 -> 0
          [] dLat = 1 /\ dLng = 0 -> 111195
          [] dLat = 0 /\ dLng = 1 /\ p.lat = 0 -> 111195
          [] dLat = 0 /\ dLng = 1 /\ p.lat = 1 -> 111178
          [] dLat = 1 /\ dLng = 1 -> 157249

RECURSIVE CalculateDistance(_)
CalculateDistance(coords) ==
    IF Len(coords) < 2 THEN 0
    ELSE SegmentMeters(coords[1], coords[2]) + CalculateDistance(Tail(coords))

\* points.map((p, i) => ({lat, lng, name, order: i})); the model's index k is
\* the code's i + 1, so the interior label "Point ${i + 1}" is <<"Point ", k>>
Waypoints(points) ==
    [k \in 1..Len(points) |->
        [lat |-> points[k].lat,
         lng |-> points[k].lng,
         name |-> IF k = 1 THEN <<"Start">>
                  ELSE IF k = Len(points) THEN <<"End">>
                  ELSE <<"Point ", k>>,
         order |-> k - 1]]

MapToLngLat(points) == [k \in 1..Len(points) |-> ToLngLat(points[k])]

(***************************************************************************)
(* Route ids. The service chooses the ids of the routes it returns; they   *)
(* are opaque strings, and one of them carries the reserved prefix, so     *)
(* that the local branch of update and delete meets a stored route (no     *)
(* operation of the hook makes up an id of its own).                       *)
(***************************************************************************)
ID_LOCAL == LOCAL_PREFIX \o <<"1">>

ID_R1 == <<"r", "1">>

\* the ids of the routes the service holds
RouteIds == {ID_LOCAL, ID_R1}

\* routeId.startsWith("local-")
IsLocalId(id) == StartsWith(id, LOCAL_PREFIX)

(***************************************************************************)
(* RouteResponse (what the service returns) and RouteFeature (what the     *)
(* store holds). distanceKm is in kilometres, distance in metres, duration *)
(* in milliseconds.                                                        *)
(***************************************************************************)
ServerRoute(id, shape) ==
    [id |-> id,
     name |-> NAME_TEST,
     region |-> REGION_KHUMBU,
     minAltitude |-> 100,
     maxAltitude |-> 200,
     durationDays |-> IF shape = "full" THEN Some(2) ELSE None,
     distanceKm |-> IF shape = "full" THEN Some(5) ELSE None,
     difficultyLevel |-> IF shape = "full" THEN Some(DIFF_HARD) ELSE None,
     trekName |-> None,
     geometryCoordinates |->
        CASE shape = "full" -> Some(MapToLngLat(<<PA, PB, PC>>))
          [] shape = "onePoint" -> Some(MapToLngLat(<<PA>>))
          [] shape = "noGeometry" -> None]

\* what the service may return for each id: one id in every shape, the other
\* complete
ServerRoutes ==
    {ServerRoute(ID_R1, shape) : shape \in {"full", "onePoint", "noGeometry"}}
    \cup {ServerRoute(ID_LOCAL, "full")}

RouteResponseToFeature(route) ==
    [id |-> route.id,
     coordinates |-> Coalesce(route.geometryCoordinates, <<>>),
     distance |-> OrNumber(route.distanceKm, 0) * 1000,
     duration |-> OrNumber(route.durationDays, 0) * 24 * 3600 * 1000,
     routeName |-> route.name,
     roadType |-> OrString(route.difficultyLevel, ROAD_UNKNOWN),
     region |-> route.region,
     minAltitude |-> route.minAltitude,
     maxAltitude |-> route.maxAltitude,
     trekName |-> IF Coalesce(route.trekName, <<>>) = <<>> THEN None
                  ELSE route.trekName,
     durationDays |-> IF OrNumber(route.durationDays, 0) = 0 THEN None
                      ELSE route.durationDays,
     waypoints |-> None]

Ids(rs) == {rs[i].id : i \in 1..Len(rs)}

\* routes.find((r) => r.properties.id === routeId)
FindRoute(rs, id) ==
    IF \E i \in 1..Len(rs) : rs[i].id = id
    THEN Some(rs[CHOOSE i \in 1..Len(rs) :
                    /\ rs[i].id = id
                    /\ \A j \in 1..(i - 1) : rs[j].id # id])
    ELSE None

(***************************************************************************)
(* RouteCreateOptions and the RouteRequest built from them.                *)
(***************************************************************************)
ValidOptions ==
    [name |-> Some(NAME_TEST),
     region |-> Some(REGION_KHUMBU),
     minAltitude |-> Some(0),
     maxAltitude |-> Some(100),
     difficultyLevel |-> Some(DIFF_MODERATE),
     trekName |-> None,
     durationDays |-> None,
     distanceKm |-> None,
     coordinates |-> None]

\* the options a caller of addRoute passes: valid ones, and one required
\* field wrong at a time
CreateOptions ==
    {ValidOptions,
     [ValidOptions EXCEPT !.name = Some(NAME_SHORT)],
     [ValidOptions EXCEPT !.name = Some(NAME_BLANK)],
     [ValidOptions EXCEPT !.region = Some(<<>>)],
     [ValidOptions EXCEPT !.minAltitude = Some(0 - 1)],
     [ValidOptions EXCEPT !.maxAltitude = Some(0)],
     [ValidOptions EXCEPT !.difficultyLevel = Some(<<>>)],
     [ValidOptions EXCEPT !.distanceKm = Some(5)],
     [ValidOptions EXCEPT !.coordinates = Some(<<PA, PB>>)]}

\* the arguments of a call of addRoute: every point list with valid options,
\* every options record with the longest point list, and the shortest point
\* list with options.coordinates
CreateInputs ==
    {[points |-> p, options |-> ValidOptions] : p \in PointLists}
    \cup {[points |-> <<PA, PB, PC>>, options |-> o] : o \in CreateOptions}
    \cup {[points |-> <<PA>>,
           options |-> [ValidOptions EXCEPT !.coordinates = Some(<<PA, PB>>)]]}

NoOptions ==
    [name |-> None,
     region |-> None,
     minAltitude |-> None,
     maxAltitude |-> None,
     difficultyLevel |-> None,
     trekName |-> None,
     durationDays |-> None,
     distanceKm |-> None,
     coordinates |-> None]

\* the Partial<RouteCreateOptions> a caller of updateRoute passes
UpdateOptions ==
    {NoOptions,
     [NoOptions EXCEPT !.trekName = Some(TREK_EBC), !.durationDays = Some(2),
                       !.distanceKm = Some(5)]}

\* addRoute: optionCoordinates && optionCoordinates.length > 0 ? ... : points
RoutePoints(points, options) ==
    IF IsSome(options.coordinates) /\ Len(Coalesce(options.coordinates, <<>>)) > 0
    THEN options.coordinates[1]
    ELSE points

\* providedDistanceKm ?? calculateDistance(points) / 1000, in metres
RequestDistance(points, options) ==
    IF IsSome(options.distanceKm) THEN options.distanceKm[1] * 1000
    ELSE CalculateDistance(points)

\* addRoute: const routeRequest
CreateRequest(points, options) ==
    [name |-> Coalesce(options.name, <<>>),
     region |-> Coalesce(options.region, <<>>),
     minAltitude |-> options.minAltitude,
     maxAltitude |-> Coalesce(options.maxAltitude, 0),
     difficultyLevel |-> Coalesce(options.difficultyLevel, <<>>),
     distance |-> RequestDistance(RoutePoints(points, options), options),
     geometryCoordinates |-> MapToLngLat(RoutePoints(points, options)),
     trekName |-> options.trekName,
     durationDays |-> options.durationDays]

\* updateRoute: const routeRequest; existing is routes.find(...) or None
UpdateRequest(points, options, existing) ==
    [name |-> OrString(options.name,
                 OrString(IF IsSome(existing) THEN Some(existing[1].routeName) ELSE None,
                          NAME_UPDATED_ROUTE)),
     region |-> OrString(options.region,
                 OrString(IF IsSome(existing) THEN Some(existing[1].region) ELSE None,
                          REGION_CUSTOM)),
     minAltitude |-> IF IsSome(options.minAltitude) THEN options.minAltitude
                     ELSE IF IsSome(existing) THEN Some(existing[1].minAltitude)
                     ELSE Some(0),
     maxAltitude |-> IF IsSome(options.maxAltitude) THEN options.maxAltitude[1]
                     ELSE IF IsSome(existing) THEN existing[1].maxAltitude
                     ELSE 0,
     difficultyLevel |-> OrString(options.difficultyLevel,
                 OrString(IF IsSome(existing) THEN Some(existing[1].roadType) ELSE None,
                          DIFF_MODERATE)),
     distance |-> RequestDistance(points, options),
     geometryCoordinates |-> MapToLngLat(points),
     trekName |-> IF Coalesce(options.trekName, <<>>) # <<>> THEN options.trekName
                  ELSE IF IsSome(existing) THEN existing[1].trekName
                  ELSE None,
     durationDays |-> IF OrNumber(options.durationDays, 0) # 0 THEN options.durationDays
                      ELSE IF IsSome(existing) THEN existing[1].durationDays
                      ELSE None]

(***************************************************************************)
(* api.ts: what createRoute / updateRoute / deleteRoute return.            *)
(***************************************************************************)
ApiFailure(message) == [success |-> FALSE, data |-> None, message |-> Some(message)]

\* the validationErrors array of createRoute and updateRoute
ValidationErrors(request) ==
    (IF Len(request.name) < 3 THEN <<MSG_NAME_TOO_SHORT>> ELSE <<>>)
    \o (IF request.region = <<>> THEN <<MSG_REGION_REQUIRED>> ELSE <<>>)
    \o (IF request.minAltitude = None \/ Coalesce(request.minAltitude, 0) < 0
        THEN <<MSG_MIN_ALTITUDE>> ELSE <<>>)
    \o (IF request.maxAltitude <= 0 THEN <<MSG_MAX_ALTITUDE>> ELSE <<>>)
    \o (IF request.difficultyLevel = <<>> THEN <<MSG_DIFFICULTY_REQUIRED>> ELSE <<>>)
    \o (IF Len(request.geometryCoordinates) < 2 THEN <<MSG_TWO_POINTS>> ELSE <<>>)

\* ApiPrecheck without the test of the Authorization header
ApiPrecheck_NoTokenCheck(request, hasToken) ==
    LET validationErrors == ValidationErrors(request)
    IN  IF validationErrors # <<>>
        THEN Some(ApiFailure(Join(validationErrors, JOIN_SEP)))
        ELSE None

\* createRoute / updateRoute before the fetch: Some(response) when the
\* function returns without a network request, None when it goes on to fetch
ApiPrecheck(request, hasToken) ==
    IF ~hasToken THEN Some(ApiFailure(MSG_NOT_AUTHENTICATED))
    ELSE LET validationErrors == ValidationErrors(request)
         IN  IF validationErrors # <<>>
             THEN Some(ApiFailure(Join(validationErrors, JOIN_SEP)))
             ELSE None

\* deleteRoute before the fetch
ApiDeletePrecheck(hasToken) ==
    IF ~hasToken THEN Some(ApiFailure(MSG_NOT_AUTHENTICATED)) ELSE None

(* What the network does with a request: fetch rejects (kind "throw", the  *)
(* error's message in body.message) or an HTTP response arrives with a     *)
(* status and a body; json says whether the body parses as JSON.           *)
Throw(message) ==
    [kind |-> "throw", status |-> 0, json |-> FALSE,
     body |-> [success |-> FALSE, data |-> None, message |-> Some(message)]]

Http(st, message) ==
    [kind |-> "http", status |-> st, json |-> TRUE,
     body |-> [success |-> FALSE, data |-> None, message |-> message]]

Ok(data) ==
    [kind |-> "http", status |-> 200, json |-> TRUE,
     body |-> [success |-> TRUE, data |-> data, message |-> None]]

NoContent ==
    [kind |-> "http", status |-> 204, json |-> FALSE,
     body |-> [success |-> FALSE, data |-> None, message |-> None]]

\* a 200 whose JSON body says success: false
Refused ==
    [kind |-> "http", status |-> 200, json |-> TRUE,
     body |-> [success |-> FALSE, data |-> None, message |-> None]]

FailureAnswers ==
    {Http(401, None), Http(403, None), Refused,
     Http(500, Some(MSG_SERVER_ERROR)), Http(500, None),
     Http(500, Some(MSG_SERVER_UNAUTHORIZED)),
     Http(500, Some(MSG_SERVER_NOT_AUTHENTICATED)),
     Throw(MSG_FAILED_TO_FETCH)}

\* answers to POST / PUT whose route, when there is one, has an id of idSet
WriteAnswers(idSet) ==
    {Ok(Some(r)) : r \in {s \in ServerRoutes : s.id \in idSet}}
    \cup {Ok(None)} \cup FailureAnswers

DeleteAnswers == {NoContent, Ok(None)} \cup FailureAnswers

ResponseOk(answer) == answer.status >= 200 /\ answer.status <= 299

\* createRoute / updateRoute from the fetch on; failedMessage is
\* "Failed to create route" or "Failed to update route"
ApiWriteResult(answer, failedMessage) ==
    IF answer.kind = "throw" THEN ApiFailure(answer.body.message[1])
    ELSE IF ~ResponseOk(answer)
         THEN IF answer.status = 401 THEN ApiFailure(MSG_SESSION_EXPIRED_401)
              ELSE IF answer.status = 403 THEN ApiFailure(MSG_ACCESS_DENIED)
              ELSE ApiFailure(OrString(answer.body.message, failedMessage))
         ELSE answer.body

\* deleteRoute from the fetch on
ApiDeleteResult(answer) ==
    IF answer.kind = "throw" THEN ApiFailure(answer.body.message[1])
    ELSE IF ~ResponseOk(answer)
         THEN IF answer.status = 401 THEN ApiFailure(MSG_SESSION_EXPIRED_DELETE)
              ELSE IF answer.status = 403 THEN ApiFailure(MSG_ACCESS_DENIED)
              ELSE ApiFailure(OrString(answer.body.message, MSG_FAILED_DELETE))
         ELSE IF answer.json THEN answer.body
              ELSE [success |-> TRUE, data |-> None, message |-> None]

(***************************************************************************)
(* useRoutes: how a failed response is classified.                         *)
(***************************************************************************)
\* IsAuthFailureMessage with the markers of the catch block only
IsAuthFailureMessage_TwoMarkers(message) ==
    /\ IsSome(message)
    /\ LET lower == ToLowerCase(message[1])
       IN  \/ Includes(lower, MARK_UNAUTHORIZED)
           \/ Includes(lower, MARK_401)

\* the test of the else branch: response.message?.toLowerCase().includes(...)
IsAuthFailureMessage(message) ==
    /\ IsSome(message)
    /\ LET lower == ToLowerCase(message[1])
       IN  \/ Includes(lower, MARK_UNAUTHORIZED)
           \/ Includes(lower, MARK_NOT_AUTHENTICATED)
           \/ Includes(lower, MARK_401)

\* the test of the catch block: errorMessage.toLowerCase().includes(...)
IsAuthError(errorMessage) ==
    LET lower == ToLowerCase(errorMessage)
    IN  \/ Includes(lower, MARK_UNAUTHORIZED)
        \/ Includes(lower, MARK_401)

\* the title of the one toast of a failed response
FailureTitle(response, failedMessage) ==
    IF IsAuthFailureMessage(response.message) THEN "Session Expired"
    ELSE IF IsAuthError(OrString(response.message, failedMessage))
         THEN "Session Expired"
         ELSE "Error"

(***************************************************************************)
(* The record of a step. op is the operation, outcome how the step ended,  *)
(* toasts the titles of the Notifier calls of the operation (the hook's    *)
(* and, after it, the page handler's), auth the number of onAuthRequired() *)
(* calls and net whether the operation sent a network request.             *)
(***************************************************************************)
Event(op, outcome, toasts, auth, net) ==
    [op |-> op, outcome |-> outcome, toasts |-> toasts, auth |-> auth, net |-> net]

\* a request in flight: the operation that awaits it and its target route
Request(op, id) == [op |-> op, id |-> id]

\* FailureOutcome with the error of the catch block thrown again
FailureOutcome_Rethrown(title, net) ==
    IF title = "Session Expired" THEN "SessionExpired"
    ELSE IF net THEN "Rejected"
    ELSE "ValidationError"

\* the outcome of a failed response, from the title of its toast
FailureOutcome(title, net) ==
    IF title = "Session Expired" THEN "SessionExpired"
    ELSE IF net THEN "RemoteFailure"
    ELSE "ValidationError"

\* the toast a handler of the page adds when the hook returned true; via is
\* who called the hook ("page": a handler of the page, "hook": another caller)
PageToasts(via, title) == IF via = "page" THEN <<title>> ELSE <<>>

(***************************************************************************)
(* What each branch of the hook does to the store: the new collection, the *)
(* new selection, the hook's toasts, the auth prompts and the outcome.     *)
(***************************************************************************)
Effect(rs, sel, outcome, toasts, auth) ==
    [routes |-> rs, selected |-> sel, outcome |-> outcome,
     toasts |-> toasts, auth |-> auth]

\* FailureEffect with the selection dropped
FailureEffect_ClearsSelection(rs, sel, response, failedMessage, net) ==
    LET title == FailureTitle(response, failedMessage)
    IN  Effect(rs, None, FailureOutcome(title, net), <<title>>,
               IF title = "Session Expired" THEN 1 ELSE 0)

\* the failure branches shared by addRoute, updateRoute and deleteRoute:
\* one toast, onAuthRequired() for an authorization failure, return false
FailureEffect(rs, sel, response, failedMessage, net) ==
    LET title == FailureTitle(response, failedMessage)
    IN  Effect(rs, sel, FailureOutcome(title, net), <<title>>,
               IF title = "Session Expired" THEN 1 ELSE 0)

\* if (!isAuthenticated()) { toast(...); onAuthRequired?.(); return false; }
AuthRequiredEffect(rs, sel) ==
    Effect(rs, sel, "AuthRequired", <<"Authentication Required">>, 1)

\* addRoute, from the response of apiCreateRoute on
AddRouteEffect(rs, sel, response, net) ==
    IF response.success /\ IsSome(response.data)
    THEN LET newRoute == RouteResponseToFeature(response.data[1])
         IN  Effect(Append(rs, newRoute), Some(newRoute), "success",
                    <<"Route Created">>, 0)
    ELSE FailureEffect(rs, sel, response, MSG_FAILED_CREATE, net)

\* LocalUpdate with the distance left as it was
LocalUpdate_KeepsDistance(route, points, options) ==
    [route EXCEPT
        !.coordinates = MapToLngLat(points),
        !.routeName = OrString(options.name, route.routeName),
        !.roadType = OrString(options.difficultyLevel, route.roadType),
        !.region = OrString(options.region, route.region),
        !.minAltitude = Coalesce(options.minAltitude, route.minAltitude),
        !.maxAltitude = Coalesce(options.maxAltitude, route.maxAltitude),
        !.waypoints = Some(Waypoints(points))]

\* updateRoute on a local id: the object written by both setRoutes and
\* setSelectedRoute for the route with that id
LocalUpdate(route, points, options) ==
    [route EXCEPT
        !.coordinates = MapToLngLat(points),
        !.distance = RequestDistance(points, options),
        !.duration = IF IsSome(options.durationDays)
                     THEN options.durationDays[1] * 1000
                     ELSE RequestDistance(points, options) * 72,
        !.routeName = OrString(options.name, route.routeName),
        !.roadType = OrString(options.difficultyLevel, route.roadType),
        !.region = OrString(options.region, route.region),
        !.minAltitude = Coalesce(options.minAltitude, route.minAltitude),
        !.maxAltitude = Coalesce(options.maxAltitude, route.maxAltitude),
        !.waypoints = Some(Waypoints(points))]

\* updateRoute, the branch of routeId.startsWith("local-")
LocalUpdateEffect(rs, sel, id, points, options) ==
    Effect([i \in 1..Len(rs) |->
                IF rs[i].id # id THEN rs[i] ELSE LocalUpdate(rs[i], points, options)],
           IF sel = None THEN sel
           ELSE IF sel[1].id # id THEN sel
           ELSE Some(LocalUpdate(sel[1], points, options)),
           "success", <<>>, 0)

\* UpdateRouteEffect with the setRoutes call of the success branch left out
UpdateRouteEffect_SelectionOnly(rs, sel, id, response, net) ==
    IF response.success /\ IsSome(response.data)
    THEN Effect(rs, Some(RouteResponseToFeature(response.data[1])),
                "success", <<"Route Updated">>, 0)
    ELSE FailureEffect(rs, sel, response, MSG_FAILED_UPDATE, net)

\* updateRoute, from the response of apiUpdateRoute on
UpdateRouteEffect(rs, sel, id, response, net) ==
    IF response.success /\ IsSome(response.data)
    THEN LET updatedRoute == RouteResponseToFeature(response.data[1])
         IN  Effect([i \in 1..Len(rs) |->
                        IF rs[i].id = id THEN updatedRoute ELSE rs[i]],
                    Some(updatedRoute), "success", <<"Route Updated">>, 0)
    ELSE FailureEffect(rs, sel, response, MSG_FAILED_UPDATE, net)

\* prev.filter((r) => r.properties.id !== routeId)
RemoveRoute(rs, id) == FilterSeq(rs, {i \in 1..Len(rs) : rs[i].id # id})

\* DeselectRoute with the comparison of ids left out
DeselectRoute_Always(sel, id) == None

\* prev?.properties.id === routeId ? null : prev
DeselectRoute(sel, id) ==
    IF sel = None THEN sel ELSE IF sel[1].id = id THEN None ELSE sel

\* deleteRoute, the branch of routeId.startsWith("local-")
LocalDeleteEffect(rs, sel, id) ==
    Effect(RemoveRoute(rs, id), DeselectRoute(sel, id), "success", <<>>, 0)

\* DeleteRouteEffect with the route removed before the response is read
DeleteRouteEffect_Optimistic(rs, sel, id, response, net) ==
    IF response.success
    THEN Effect(RemoveRoute(rs, id), DeselectRoute(sel, id), "success",
                <<"Route Deleted">>, 0)
    ELSE FailureEffect(RemoveRoute(rs, id), DeselectRoute(sel, id), response,
                       MSG_FAILED_DELETE, net)

\* deleteRoute, from the response of apiDeleteRoute on
DeleteRouteEffect(rs, sel, id, response, net) ==
    IF response.success
    THEN Effect(RemoveRoute(rs, id), DeselectRoute(sel, id), "success",
                <<"Route Deleted">>, 0)
    ELSE FailureEffect(rs, sel, response, MSG_FAILED_DELETE, net)

\* what a handler of the page does after its await of the hook, whatever the
\* hook returned: handleSaveRoute ends the drawing session, handleSaveEdit
\* the editing session; other callers of the hook leave the page alone
\* EndSession with the buffers left as they are
EndSession_KeepsBuffer(op, via) ==
    IF via = "page" /\ op = "create"
    THEN /\ isDrawing' = FALSE
         /\ UNCHANGED <<drawnPoints, isEditing, editPoints>>
    ELSE IF via = "page" /\ op = "update"
    THEN /\ isEditing' = FALSE
         /\ UNCHANGED <<isDrawing, drawnPoints, editPoints>>
    ELSE UNCHANGED page

\* handleSaveRoute and handleSaveEdit after the await of the hook
EndSession(op, via) ==
    IF via = "page" /\ op = "create"
    THEN /\ isDrawing' = FALSE
         /\ drawnPoints' = <<>>
         /\ UNCHANGED <<isEditing, editPoints>>
    ELSE IF via = "page" /\ op = "update"
    THEN /\ isEditing' = FALSE
         /\ editPoints' = <<>>
         /\ UNCHANGED <<isDrawing, drawnPoints>>
    ELSE UNCHANGED page

\* an effect becomes the step of the operation op called through via
Apply(e, op, via, pageTitle, net) ==
    /\ ev' = Event(op, e.outcome,
                   e.toasts \o (IF e.outcome = "success"
                                THEN PageToasts(via, pageTitle) ELSE <<>>),
                   e.auth, net)
    /\ routes' = e.routes
    /\ selectedRoute' = e.selected
    /\ EndSession(op, via)

\* the operation goes on to the network: nothing changes until the answer
Send(op, id) ==
    /\ BagCardinality(pending) < MaxPending
    /\ pending' = pending (+) SetToBag({Request(op, id)})
    /\ ev' = Event(op, "pending", <<>>, 0, TRUE)
    /\ UNCHANGED <<routes, selectedRoute, page>>

\* the answer to a request in flight arrives
Receive(op, id) ==
    /\ BagIn(Request(op, id), pending)
    /\ pending' = pending (-) SetToBag({Request(op, id)})

(***************************************************************************)
(* Initial state: the hook's useState defaults; a token of an earlier      *)
(* session may be in localStorage.                                         *)
(***************************************************************************)
Init ==
    /\ routes = <<>>
    /\ selectedRoute = None
    /\ token \in BOOLEAN
    /\ pending = EmptyBag
    /\ ev = Event("init", "none", <<>>, 0, FALSE)
    /\ isDrawing = FALSE
    /\ drawnPoints = <<>>
    /\ isEditing = FALSE
    /\ editPoints = <<>>

(***************************************************************************)
(* auth.ts                                                                 *)
(***************************************************************************)
\* login: localStorage.setItem(TOKEN_KEY, ...)
Login ==
    /\ ~token
    /\ token' = TRUE
    /\ ev' = Event("login", "none", <<>>, 0, TRUE)
    /\ UNCHANGED <<routes, selectedRoute, pending, page>>

\* logout: localStorage.removeItem(TOKEN_KEY)
Logout ==
    /\ token
    /\ token' = FALSE
    /\ ev' = Event("logout", "none", <<>>, 0, FALSE)
    /\ UNCHANGED <<routes, selectedRoute, pending, page>>

(***************************************************************************)
(* Loading the collection: fetchRouteData (fetchRoutesWithSearch has the   *)
(* same body after its own fetch).                                         *)
(***************************************************************************)
FetchRouteData ==
    /\ Send("load", <<>>)
    /\ UNCHANGED token

\* the detail responses of one load: None is a detail request that failed;
\* the service's routes have distinct ids
DistinctIds(details) ==
    \A i, j \in 1..Len(details) :
        (i < j /\ IsSome(details[i]) /\ IsSome(details[j]))
            => details[i][1].id # details[j][1].id

DetailLists ==
    {d \in UNION {[1..n -> {None} \cup {Some(r) : r \in ServerRoutes}] :
                    n \in 0..Cardinality(RouteIds)} :
        DistinctIds(d)}

LoadAnswers ==
    {[ok |-> FALSE, details |-> <<>>]} \cup {[ok |-> TRUE, details |-> d] : d \in DetailLists}

\* fetchRoutes: the features of the detail responses that arrived, those
\* without coordinates filtered out
ValidFeatures(details) ==
    LET features == [i \in 1..Len(details) |->
                        IF IsSome(details[i])
                        THEN Some(RouteResponseToFeature(details[i][1]))
                        ELSE None]
        valid == FilterSeq(features,
                    {i \in 1..Len(features) :
                        /\ IsSome(features[i])
                        /\ Len(features[i][1].coordinates) > 0})
    IN  [i \in 1..Len(valid) |-> valid[i][1]]

\* fetchRouteData, from the response of fetchRoutes on
LoadEffect(rs, sel, answer) ==
    IF answer.ok /\ Len(ValidFeatures(answer.details)) > 0
    THEN Effect(ValidFeatures(answer.details), Some(ValidFeatures(answer.details)[1]),
                "success", <<"Routes Loaded">>, 0)
    ELSE Effect(rs, sel, "RemoteFailure", <<"Error">>, 0)

ResolveLoad(answer) ==
    /\ Receive("load", <<>>)
    /\ Apply(LoadEffect(routes, selectedRoute, answer), "load", "hook", "", TRUE)
    /\ UNCHANGED token

(***************************************************************************)
(* selectRoute and clearRoutes                                             *)
(***************************************************************************)
\* SelectEffect with the selection dropped when no route has the id
SelectEffect_ClearsOnMiss(rs, sel, id) ==
    IF IsSome(FindRoute(rs, id))
    THEN Effect(rs, FindRoute(rs, id), "success", <<>>, 0)
    ELSE Effect(rs, None, "none", <<>>, 0)

\* selectRoute: setSelectedRoute(route) only when routes.find gave a route
SelectEffect(rs, sel, id) ==
    IF IsSome(FindRoute(rs, id))
    THEN Effect(rs, FindRoute(rs, id), "success", <<>>, 0)
    ELSE Effect(rs, sel, "none", <<>>, 0)

SelectRoute(id) ==
    /\ Apply(SelectEffect(routes, selectedRoute, id), "select", "hook", "", FALSE)
    /\ UNCHANGED <<token, pending>>

ClearRoutes ==
    /\ routes' = <<>>
    /\ selectedRoute' = None
    /\ ev' = Event("clear", "success", <<>>, 0, FALSE)
    /\ UNCHANGED <<token, pending, page>>

(***************************************************************************)
(* addRoute                                                                *)
(***************************************************************************)
\* addRoute up to the await: the caller's arguments, then either a return
\* without a request or the request sent
AddRouteCall(points, options, via) ==
    IF ~token
    THEN /\ Apply(AuthRequiredEffect(routes, selectedRoute), "create", via,
                  "Route Created", FALSE)
         /\ UNCHANGED <<token, pending>>
    ELSE LET early == ApiPrecheck(CreateRequest(points, options), token)
         IN  IF IsSome(early)
             THEN /\ Apply(AddRouteEffect(routes, selectedRoute, early[1], FALSE),
                           "create", via, "Route Created", FALSE)
                  /\ UNCHANGED <<token, pending>>
             ELSE /\ Send("create", <<>>)
                  /\ UNCHANGED token

AddRoute(points, options) == AddRouteCall(points, options, "hook")

\* a page handler that returns before it calls the hook
Ignored(op) ==
    /\ ev' = Event(op, "ignored", <<>>, 0, FALSE)
    /\ UNCHANGED <<routes, selectedRoute, token, pending, page>>

\* handleSaveRoute of the page
HandleSaveRoute(points, options) ==
    IF Len(points) < 2 \/ Trim(Coalesce(options.name, <<>>)) = <<>>
    THEN Ignored("create")
    ELSE AddRouteCall(points, options, "page")

\* addRoute after the await; the service gives a new route an id that no
\* route of the collection has
ResolveCreate(via, answer) ==
    /\ Receive("create", <<>>)
    /\ answer \in WriteAnswers(RouteIds \ Ids(routes))
    /\ LET e == AddRouteEffect(routes, selectedRoute,
                               ApiWriteResult(answer, MSG_FAILED_CREATE), TRUE)
       IN  Apply(e, "create", via, "Route Created", TRUE)
    /\ UNCHANGED token

(***************************************************************************)
(* updateRoute                                                             *)
(***************************************************************************)
UpdateRouteCall(id, points, options, via) ==
    IF IsLocalId(id)
    THEN /\ Apply(LocalUpdateEffect(routes, selectedRoute, id, points, options),
                  "update", via, "Route Updated", FALSE)
         /\ UNCHANGED <<token, pending>>
    ELSE IF ~token
    THEN /\ Apply(AuthRequiredEffect(routes, selectedRoute), "update", via,
                  "Route Updated", FALSE)
         /\ UNCHANGED <<token, pending>>
    ELSE LET early == ApiPrecheck(UpdateRequest(points, options,
                                                FindRoute(routes, id)), token)
         IN  IF IsSome(early)
             THEN /\ Apply(UpdateRouteEffect(routes, selectedRoute, id, early[1], FALSE),
                           "update", via, "Route Updated", FALSE)
                  /\ UNCHANGED <<token, pending>>
             ELSE /\ Send("update", id)
                  /\ UNCHANGED token

UpdateRoute(id, points, options) == UpdateRouteCall(id, points, options, "hook")

\* handleSaveEdit of the page
HandleSaveEdit(points, options) ==
    IF selectedRoute = None \/ Len(points) < 2
    THEN Ignored("update")
    ELSE UpdateRouteCall(selectedRoute[1].id, points, options, "page")

\* updateRoute after the await; the service answers with the route of the
\* id it was asked to update
ResolveUpdate(id, via, answer) ==
    /\ Receive("update", id)
    /\ answer \in WriteAnswers({id})
    /\ Apply(UpdateRouteEffect(routes, selectedRoute, id,
                               ApiWriteResult(answer, MSG_FAILED_UPDATE), TRUE),
             "update", via, "Route Updated", TRUE)
    /\ UNCHANGED token

(***************************************************************************)
(* updateRoute called again while earlier updates are still awaited. The   *)
(* hook keeps no record of the calls it awaits; the model numbers each     *)
(* request of an update (n, the order of issue among those in flight) only *)
(* to tell them apart.                                                     *)
(***************************************************************************)
IssuedRequest(op, id, n) == [op |-> op, id |-> id, n |-> n]

\* the numbered requests in flight
Issued == {r \in BagToSet(pending) : "n" \in DOMAIN r}

IssueNumber == Cardinality(Issued) + 1

\* updateRoute up to the await, callable while other updates are in flight
OverlapUpdateRoute(id, points, options) ==
    IF \/ IsLocalId(id)
       \/ ~token
       \/ IsSome(ApiPrecheck(UpdateRequest(points, options, FindRoute(routes, id)), token))
    THEN UpdateRouteCall(id, points, options, "hook")
    ELSE /\ Cardinality(Issued) < MaxOverlap
         /\ \A r \in Issued : r.n < IssueNumber
         /\ pending' = pending (+) SetToBag({IssuedRequest("update", id, IssueNumber)})
         /\ ev' = Event("update", "pending", <<>>, 0, TRUE)
         /\ UNCHANGED <<routes, selectedRoute, token, page>>

\* updateRoute after the await of the request numbered request.n
OverlapResolveUpdate(request, answer) ==
    /\ request \in Issued
    /\ answer \in WriteAnswers({request.id})
    /\ pending' = pending (-) SetToBag({request})
    /\ Apply(UpdateRouteEffect(routes, selectedRoute, request.id,
                               ApiWriteResult(answer, MSG_FAILED_UPDATE), TRUE),
             "update", "hook", "Route Updated", TRUE)
    /\ UNCHANGED token

(***************************************************************************)
(* deleteRoute                                                             *)
(***************************************************************************)
\* DeleteRouteCall without the isAuthenticated() test
DeleteRouteCall_NoAuthCheck(id, via) ==
    IF IsLocalId(id)
    THEN /\ Apply(LocalDeleteEffect(routes, selectedRoute, id), "delete", via,
                  "Route Deleted", FALSE)
         /\ UNCHANGED <<token, pending>>
    ELSE /\ Send("delete", id)
         /\ UNCHANGED token

DeleteRouteCall(id, via) ==
    IF IsLocalId(id)
    THEN /\ Apply(LocalDeleteEffect(routes, selectedRoute, id), "delete", via,
                  "Route Deleted", FALSE)
         /\ UNCHANGED <<token, pending>>
    ELSE IF ~token
    THEN /\ Apply(AuthRequiredEffect(routes, selectedRoute), "delete", via,
                  "Route Deleted", FALSE)
         /\ UNCHANGED <<token, pending>>
    ELSE IF IsSome(ApiDeletePrecheck(token))
         THEN /\ Apply(DeleteRouteEffect(routes, selectedRoute, id,
                                         ApiDeletePrecheck(token)[1], FALSE),
                       "delete", via, "Route Deleted", FALSE)
              /\ UNCHANGED <<token, pending>>
         ELSE /\ Send("delete", id)
              /\ UNCHANGED token

DeleteRoute(id) == DeleteRouteCall(id, "hook")

\* handleDeleteRoute of the page
HandleDeleteRoute ==
    IF selectedRoute = None
    THEN Ignored("delete")
    ELSE DeleteRouteCall(selectedRoute[1].id, "page")

\* deleteRoute after the await
ResolveDelete(id, via, answer) ==
    /\ Receive("delete", id)
    /\ answer \in DeleteAnswers
    /\ Apply(DeleteRouteEffect(routes, selectedRoute, id, ApiDeleteResult(answer), TRUE),
             "delete", via, "Route Deleted", TRUE)
    /\ UNCHANGED token

(***************************************************************************)
(* The specifications. Spec is the hook as any caller may use it: every    *)
(* operation with every argument. PageSpec is the hook as the page uses    *)
(* it: through handleSaveRoute, handleSaveEdit and handleDeleteRoute,      *)
(* which add their own toast when the hook returns true.                   *)
(***************************************************************************)
(***************************************************************************)
(* The point buffers of the page: drawnPoints while drawing, editPoints     *)
(* while editing. Indices are those of the code, from 0.                    *)
(***************************************************************************)
hook == <<routes, selectedRoute, token, pending>>

\* a handler of the page that touches neither the hook nor the service
PageStep(op, outcome) ==
    /\ ev' = Event(op, outcome, <<>>, 0, FALSE)
    /\ UNCHANGED hook

\* the coordinates of a click on the map or of a dragged marker
EditCoords == {Point(1, 0)}

\* the indices a caller may pass: below 0, in range, the length, beyond it
EditIndices == -1..MaxPoints

\* prev.slice(0, -1)
DropLast(points) == IF points = <<>> THEN <<>> ELSE SubSeq(points, 1, Len(points) - 1)

\* const newPoints = [...prev]; newPoints[index] = coords; return newPoints;
\* an assignment at the length appends, beyond it leaves holes, and below 0
\* sets a property that is no element of the array
ArrayAssign(points, index, coords) ==
    IF index < 0 THEN points
    ELSE [k \in 1..(IF index + 1 > Len(points) THEN index + 1 ELSE Len(points)) |->
            IF k = index + 1 THEN coords
            ELSE IF k <= Len(points) THEN points[k]
            ELSE [hole |-> TRUE]]

HandleMapClick(coords) ==
    /\ IF isDrawing
       THEN /\ Len(drawnPoints) < MaxPoints
            /\ drawnPoints' = Append(drawnPoints, coords)
            /\ UNCHANGED <<isDrawing, isEditing, editPoints>>
       ELSE IF isEditing
       THEN /\ Len(editPoints) < MaxPoints
            /\ editPoints' = Append(editPoints, coords)
            /\ UNCHANGED <<isDrawing, drawnPoints, isEditing>>
       ELSE UNCHANGED page
    /\ PageStep("page", "done")

HandleToggleDrawing ==
    /\ IF isEditing
       THEN UNCHANGED page
       ELSE /\ isDrawing' = ~isDrawing
            /\ drawnPoints' = IF isDrawing THEN <<>> ELSE drawnPoints
            /\ UNCHANGED <<isEditing, editPoints>>
    /\ PageStep("page", "done")

HandleClearPoints ==
    /\ drawnPoints' = <<>>
    /\ UNCHANGED <<isDrawing, isEditing, editPoints>>
    /\ PageStep("page", "done")

HandleUndoLastPoint ==
    /\ drawnPoints' = DropLast(drawnPoints)
    /\ UNCHANGED <<isDrawing, isEditing, editPoints>>
    /\ PageStep("page", "done")

\* HandleStartEdit without the test of isDrawing
HandleStartEdit_WhileDrawing ==
    /\ IF selectedRoute = None
       THEN UNCHANGED page
       ELSE /\ editPoints' = [k \in 1..Len(selectedRoute[1].coordinates) |->
                                FromLngLat(selectedRoute[1].coordinates[k])]
            /\ isEditing' = TRUE
            /\ UNCHANGED <<isDrawing, drawnPoints>>
    /\ PageStep("startEdit", "done")

HandleStartEdit ==
    /\ IF selectedRoute = None \/ isDrawing
       THEN UNCHANGED page
       ELSE /\ editPoints' = [k \in 1..Len(selectedRoute[1].coordinates) |->
                                FromLngLat(selectedRoute[1].coordinates[k])]
            /\ isEditing' = TRUE
            /\ UNCHANGED <<isDrawing, drawnPoints>>
    /\ PageStep("startEdit", "done")

\* HandleCancelEdit that also drops the selection
HandleCancelEdit_Deselects ==
    /\ isEditing' = FALSE
    /\ editPoints' = <<>>
    /\ selectedRoute' = None
    /\ ev' = Event("cancelEdit", "done", <<>>, 0, FALSE)
    /\ UNCHANGED <<isDrawing, drawnPoints, routes, token, pending>>

HandleCancelEdit ==
    /\ isEditing' = FALSE
    /\ editPoints' = <<>>
    /\ UNCHANGED <<isDrawing, drawnPoints>>
    /\ PageStep("cancelEdit", "done")

HandleEditUndoPoint ==
    /\ editPoints' = DropLast(editPoints)
    /\ UNCHANGED <<isDrawing, drawnPoints, isEditing>>
    /\ PageStep("page", "done")

HandleEditClearPoints ==
    /\ editPoints' = <<>>
    /\ UNCHANGED <<isDrawing, drawnPoints, isEditing>>
    /\ PageStep("page", "done")

HandleEditPointDrag(index, coords) ==
    /\ index < MaxPoints
    /\ editPoints' = ArrayAssign(editPoints, index, coords)
    /\ UNCHANGED <<isDrawing, drawnPoints, isEditing>>
    /\ PageStep("editPointDrag", "done")

(***************************************************************************)
(* onDeletePoint and onMovePoint: EditRouteControls declares and calls     *)
(* them (EditRouteControls.tsx 48, 50, 318, 455); the page that implements *)
(* them is not among the sources, so they follow the written contract of   *)
(* the edit buffer.                                                        *)
(***************************************************************************)
InRange(points, index) == index >= 0 /\ index < Len(points)

RemoveAt(points, index) ==
    SubSeq(points, 1, index) \o SubSeq(points, index + 2, Len(points))

InsertAt(points, index, coords) ==
    SubSeq(points, 1, index) \o <<coords>> \o SubSeq(points, index + 1, Len(points))

\* DeletePointResult without the test of the resulting length
DeletePointResult_Unguarded(points, index) ==
    IF InRange(points, index)
    THEN [points |-> RemoveAt(points, index), ok |-> TRUE]
    ELSE [points |-> points, ok |-> FALSE]

\* deletePoint(index): the point at index removed, refused when fewer than
\* two points would be left
DeletePointResult(points, index) ==
    IF InRange(points, index) /\ Len(points) - 1 >= 2
    THEN [points |-> RemoveAt(points, index), ok |-> TRUE]
    ELSE [points |-> points, ok |-> FALSE]

DeletePoint(index) ==
    /\ editPoints' = DeletePointResult(editPoints, index).points
    /\ UNCHANGED <<isDrawing, drawnPoints, isEditing>>
    /\ PageStep("deletePoint", IF DeletePointResult(editPoints, index).ok THEN "done" ELSE "rejected")

\* MovePointResult that copies the point over the target instead of moving it
MovePointResult_Overwrites(points, from, to) ==
    IF InRange(points, from) /\ InRange(points, to)
    THEN [points EXCEPT ![to + 1] = points[from + 1]]
    ELSE points

\* movePoint(from, to): the point at from removed and put back at to
MovePointResult(points, from, to) ==
    IF InRange(points, from) /\ InRange(points, to)
    THEN InsertAt(RemoveAt(points, from), to, points[from + 1])
    ELSE points

MovePoint(from, to) ==
    /\ editPoints' = MovePointResult(editPoints, from, to)
    /\ UNCHANGED <<isDrawing, drawnPoints, isEditing>>
    /\ PageStep("movePoint", "done")

AllWriteAnswers == WriteAnswers(RouteIds)

Next ==
    \/ Login
    \/ Logout
    \/ FetchRouteData
    \/ \E answer \in LoadAnswers : ResolveLoad(answer)
    \/ \E id \in RouteIds : SelectRoute(id)
    \/ ClearRoutes
    \/ \E input \in CreateInputs : AddRoute(input.points, input.options)
    \/ \E answer \in AllWriteAnswers : ResolveCreate("hook", answer)
    \/ \E id \in RouteIds, points \in PointLists, options \in UpdateOptions :
            UpdateRoute(id, points, options)
    \/ \E id \in RouteIds, answer \in AllWriteAnswers : ResolveUpdate(id, "hook", answer)
    \/ \E id \in RouteIds : DeleteRoute(id)
    \/ \E id \in RouteIds, answer \in DeleteAnswers : ResolveDelete(id, "hook", answer)

Spec == Init /\ [][Next]_vars

PageNext ==
    \/ Login
    \/ Logout
    \/ FetchRouteData
    \/ \E answer \in LoadAnswers : ResolveLoad(answer)
    \/ \E id \in RouteIds : SelectRoute(id)
    \/ \E input \in CreateInputs : HandleSaveRoute(input.points, input.options)
    \/ \E answer \in AllWriteAnswers : ResolveCreate("page", answer)
    \/ \E points \in PointLists, options \in UpdateOptions : HandleSaveEdit(points, options)
    \/ \E id \in RouteIds, answer \in AllWriteAnswers : ResolveUpdate(id, "page", answer)
    \/ HandleDeleteRoute
    \/ \E id \in RouteIds, answer \in DeleteAnswers : ResolveDelete(id, "page", answer)

PageSpec == Init /\ [][PageNext]_vars

\* EditSpec: the point buffers of the page, seeded from the loaded routes
EditNext ==
    \/ FetchRouteData
    \/ \E answer \in LoadAnswers : ResolveLoad(answer)
    \/ \E coords \in EditCoords : HandleMapClick(coords)
    \/ HandleToggleDrawing
    \/ HandleClearPoints
    \/ HandleUndoLastPoint
    \/ HandleStartEdit
    \/ HandleCancelEdit
    \/ HandleEditUndoPoint
    \/ HandleEditClearPoints
    \/ \E index \in EditIndices, coords \in EditCoords : HandleEditPointDrag(index, coords)
    \/ \E index \in EditIndices : DeletePoint(index)
    \/ \E from \in EditIndices, to \in EditIndices : MovePoint(from, to)

EditSpec == Init /\ [][EditNext]_vars

(***************************************************************************)
(* TransportSpec: createRoute, updateRoute and deleteRoute of api.ts called *)
(* whatever isAuthenticated() would say, as the try blocks of the hook do   *)
(* once its own test has passed; the token may be gone by then (a logout   *)
(* in another tab clears the same localStorage).                            *)
(***************************************************************************)
\* try { ... await apiCreateRoute(routeRequest) ... } of addRoute
ApiCreateRoute(points, options) ==
    LET early == ApiPrecheck(CreateRequest(points, options), token)
    IN  IF IsSome(early)
        THEN /\ Apply(AddRouteEffect(routes, selectedRoute, early[1], FALSE),
                      "create", "hook", "Route Created", FALSE)
             /\ UNCHANGED <<token, pending>>
        ELSE /\ Send("create", <<>>)
             /\ UNCHANGED token

\* try { ... await apiUpdateRoute(routeId, routeRequest) ... } of updateRoute
ApiUpdateRoute(id, points, options) ==
    LET early == ApiPrecheck(UpdateRequest(points, options, FindRoute(routes, id)), token)
    IN  IF IsSome(early)
        THEN /\ Apply(UpdateRouteEffect(routes, selectedRoute, id, early[1], FALSE),
                      "update", "hook", "Route Updated", FALSE)
             /\ UNCHANGED <<token, pending>>
        ELSE /\ Send("update", id)
             /\ UNCHANGED token

\* try { ... await apiDeleteRoute(routeId) ... } of deleteRoute
ApiDeleteRoute(id) ==
    IF IsSome(ApiDeletePrecheck(token))
    THEN /\ Apply(DeleteRouteEffect(routes, selectedRoute, id,
                                    ApiDeletePrecheck(token)[1], FALSE),
                  "delete", "hook", "Route Deleted", FALSE)
         /\ UNCHANGED <<token, pending>>
    ELSE /\ Send("delete", id)
         /\ UNCHANGED token

TransportNext ==
    \/ Login
    \/ Logout
    \/ FetchRouteData
    \/ \E answer \in LoadAnswers : ResolveLoad(answer)
    \/ \E input \in CreateInputs : ApiCreateRoute(input.points, input.options)
    \/ \E answer \in AllWriteAnswers : ResolveCreate("hook", answer)
    \/ \E id \in RouteIds, points \in PointLists, options \in UpdateOptions :
            ApiUpdateRoute(id, points, options)
    \/ \E id \in RouteIds, answer \in AllWriteAnswers : ResolveUpdate(id, "hook", answer)
    \/ \E id \in RouteIds : ApiDeleteRoute(id)
    \/ \E id \in RouteIds, answer \in DeleteAnswers : ResolveDelete(id, "hook", answer)

TransportSpec == Init /\ [][TransportNext]_vars

(***************************************************************************)
(* SessionSpec: a drawing or an editing session of the page from its start *)
(* to its save or cancel, the saves sent with the buffers of the page.     *)
(***************************************************************************)
\* the loads of a session: both routes of the service, complete
SessionLoadAnswers ==
    {[ok |-> TRUE,
      details |-> <<Some(ServerRoute(ID_R1, "full")), Some(ServerRoute(ID_LOCAL, "full"))>>]}

\* the answers to the saves of a session: the saved route, or a failure
SessionWriteAnswers ==
    {Ok(Some(ServerRoute(id, "full"))) : id \in RouteIds}
    \cup {Http(401, None), Http(500, None), Throw(MSG_FAILED_TO_FETCH)}

\* MapView: dragend of the marker of editPoints[index]
MarkerDragEnd(index, coords) ==
    /\ InRange(editPoints, index)
    /\ HandleEditPointDrag(index, coords)

\* DrawingControls: onSaveRoute(options), the handler reads drawnPoints
SaveRoute(options) == HandleSaveRoute(drawnPoints, options)

\* EditRouteControls: onSaveEdit(options), the handler reads editPoints
SaveEdit(options) == HandleSaveEdit(editPoints, options)

SessionNext ==
    \/ FetchRouteData
    \/ \E answer \in SessionLoadAnswers : ResolveLoad(answer)
    \/ HandleToggleDrawing
    \/ HandleStartEdit
    \/ HandleCancelEdit
    \/ \E coords \in EditCoords : HandleMapClick(coords)
    \/ HandleUndoLastPoint
    \/ HandleEditUndoPoint
    \/ \E index \in EditIndices, coords \in EditCoords : MarkerDragEnd(index, coords)
    \/ SaveRoute(ValidOptions)
    \/ \E answer \in SessionWriteAnswers : ResolveCreate("page", answer)
    \/ \E options \in UpdateOptions : SaveEdit(options)
    \/ \E id \in RouteIds, answer \in SessionWriteAnswers : ResolveUpdate(id, "page", answer)

SessionSpec == Init /\ [][SessionNext]_vars

(***************************************************************************)
(* ServiceIdSpec: the hook with a service that is free in the ids of the   *)
(* routes it returns: a created route may come back with an id that is     *)
(* taken, an updated one with another id than the one asked for.           *)
(***************************************************************************)
\* addRoute after the await, the id of response.data not constrained
ResolveCreateAnyId(answer) ==
    /\ Receive("create", <<>>)
    /\ answer \in SessionWriteAnswers
    /\ Len(routes) < MaxRoutes
    /\ Apply(AddRouteEffect(routes, selectedRoute,
                            ApiWriteResult(answer, MSG_FAILED_CREATE), TRUE),
             "create", "hook", "Route Created", TRUE)
    /\ UNCHANGED token

\* updateRoute after the await, the id of response.data not constrained
ResolveUpdateAnyId(id, answer) ==
    /\ Receive("update", id)
    /\ answer \in SessionWriteAnswers
    /\ Apply(UpdateRouteEffect(routes, selectedRoute, id,
                               ApiWriteResult(answer, MSG_FAILED_UPDATE), TRUE),
             "update", "hook", "Route Updated", TRUE)
    /\ UNCHANGED token

ServiceIdNext ==
    \/ Login
    \/ FetchRouteData
    \/ \E answer \in SessionLoadAnswers : ResolveLoad(answer)
    \/ AddRoute(<<PA, PB, PC>>, ValidOptions)
    \/ \E answer \in SessionWriteAnswers : ResolveCreateAnyId(answer)
    \/ \E id \in RouteIds : UpdateRoute(id, <<PA, PB>>, NoOptions)
    \/ \E id \in RouteIds, answer \in SessionWriteAnswers : ResolveUpdateAnyId(id, answer)
    \/ \E id \in RouteIds : DeleteRoute(id)
    \/ \E id \in RouteIds, answer \in DeleteAnswers : ResolveDelete(id, "hook", answer)

ServiceIdSpec == Init /\ [][ServiceIdNext]_vars

\* the requests an update can have in flight in OverlapSpec
OverlapRequests ==
    {IssuedRequest("update", id, n) : id \in RouteIds, n \in 1..MaxOverlap}

\* OverlapSpec: the hook with several updates awaited at once
OverlapNext ==
    \/ Login
    \/ FetchRouteData
    \/ \E answer \in LoadAnswers : ResolveLoad(answer)
    \/ \E id \in RouteIds, points \in PointLists, options \in UpdateOptions :
            OverlapUpdateRoute(id, points, options)
    \/ \E request \in OverlapRequests, answer \in AllWriteAnswers :
            OverlapResolveUpdate(request, answer)

OverlapSpec == Init /\ [][OverlapNext]_vars

(***************************************************************************)
(* Properties of the persistence policy.                                   *)
(***************************************************************************)
Writes == {"create", "update", "delete"}

Terminal == {"success", "ValidationError", "AuthRequired", "SessionExpired", "RemoteFailure"}

Failures == {"ValidationError", "AuthRequired", "SessionExpired", "RemoteFailure"}

\* the reserved prefix, read off the id itself
CarriesLocalPrefix(id) == Len(id) >= 6 /\ SubSeq(id, 1, 6) = LOCAL_PREFIX

\* the required fields of a create
RequiredFieldsValid(points, options) ==
    /\ Len(Coalesce(options.name, <<>>)) >= 3
    /\ Coalesce(options.region, <<>>) # <<>>
    /\ IsSome(options.minAltitude) /\ Coalesce(options.minAltitude, 0) >= 0
    /\ Coalesce(options.maxAltitude, 0) > 0
    /\ Coalesce(options.difficultyLevel, <<>>) # <<>>
    /\ Len(RoutePoints(points, options)) >= 2

\* C1: a create while unauthenticated, with valid metadata and at least 2
\* points, makes no network request, appends exactly one route whose id
\* carries the local prefix and whose geometry is the buffer, selects it and
\* reports success.
C1_LocalCreateWhenUnauthenticated ==
    [][ev'.op = "create" =>
       \A input \in CreateInputs :
        (/\ ~token
         /\ RequiredFieldsValid(input.points, input.options)
         /\ AddRoute(input.points, input.options))
            => /\ ~ev'.net
               /\ pending' = pending
               /\ ev'.outcome = "success"
               /\ Len(routes') = Len(routes) + 1
               /\ CarriesLocalPrefix(routes'[Len(routes')].id)
               /\ routes'[Len(routes')].coordinates
                    = MapToLngLat(RoutePoints(input.points, input.options))
               /\ selectedRoute' = Some(routes'[Len(routes')])]_vars

\* C2: an update of a route whose id carries the local prefix replaces the
\* geometry and the distance of that route in the collection, leaves the
\* other routes alone and reports success, with or without a token; it sends
\* no request, never calls onAuthRequired() and raises no notification of an
\* authentication error.
C2_LocalUpdateApplied ==
    [][ev'.op = "update" =>
       \A id \in RouteIds, points \in PointLists, options \in UpdateOptions :
        (/\ CarriesLocalPrefix(id)
         /\ UpdateRoute(id, points, options))
            => /\ ev'.outcome = "success"
               /\ ~ev'.net
               /\ pending' = pending
               /\ ev'.auth = 0
               /\ \A k \in 1..Len(ev'.toasts) :
                    ev'.toasts[k] \notin {"Authentication Required", "Session Expired"}
               /\ Len(routes') = Len(routes)
               /\ \A i \in 1..Len(routes) :
                    IF routes[i].id = id
                    THEN /\ routes'[i].id = id
                         /\ routes'[i].coordinates
                              = [k \in 1..Len(points) |-> <<points[k].lng, points[k].lat>>]
                         /\ routes'[i].distance
                              = IF IsSome(options.distanceKm)
                                THEN options.distanceKm[1] * 1000
                                ELSE CalculateDistance(points)
                    ELSE routes'[i] = routes[i]]_vars

C2_Witness ==
    /\ ev.op = "update"
    /\ ev.outcome = "success"
    /\ ~ev.net
    /\ ~token
    /\ \E i \in 1..Len(routes) :
         /\ CarriesLocalPrefix(routes[i].id)
         /\ IsSome(routes[i].waypoints)
         /\ Len(routes[i].coordinates) = 2

NamesAuthorizationFailure(response) ==
    /\ ~response.success
    /\ IsSome(response.message)
    /\ \E marker \in {MARK_401, MARK_UNAUTHORIZED, MARK_NOT_AUTHENTICATED} :
         Includes(ToLowerCase(response.message[1]), marker)

\* the answers to a create that the transport layer turns into such a response
AuthorizationFailureAnswers ==
    {answer \in AllWriteAnswers :
        NamesAuthorizationFailure(ApiWriteResult(answer, MSG_FAILED_CREATE))}

\* C4: when the answer to an authenticated create is a failure whose message
\* contains "401", "unauthorized" or "not authenticated" in any case, the
\* operation raises exactly one notification, "Session Expired", calls
\* onAuthRequired() exactly once and adds no route.
C4_CreateSessionExpired ==
    [][(ev'.op = "create" /\ ev'.net /\ ev'.outcome # "pending") =>
       \A answer \in AuthorizationFailureAnswers :
        ResolveCreate("hook", answer)
            => /\ ev'.toasts = <<"Session Expired">>
               /\ ev'.auth = 1
               /\ routes' = routes]_vars

C4_Witness ==
    /\ ev.op = "create"
    /\ ev.outcome = "SessionExpired"
    /\ ev.net
    /\ ev.toasts = <<"Session Expired">>

\* C5: a create, update or delete that ends in ValidationError, AuthRequired,
\* SessionExpired or RemoteFailure leaves the collection and the selection
\* exactly as they were.
C5_FailureLeavesStore ==
    [][(ev'.op \in Writes /\ ev'.outcome \in Failures)
            => (routes' = routes /\ selectedRoute' = selectedRoute)]_vars

C5_Witness ==
    /\ ev.op = "update"
    /\ ev.outcome = "RemoteFailure"
    /\ routes # <<>>
    /\ selectedRoute # None

\* C6: every create, update or delete that has ended, whatever its outcome,
\* has raised exactly one notification.
C6_ExactlyOneNotification ==
    (ev.op \in Writes /\ ev.outcome \in Terminal) => Len(ev.toasts) = 1

\* C7: the selected route is null or has the id of a route of the collection.
C7_SelectionInCollection ==
    selectedRoute = None \/ selectedRoute[1].id \in Ids(routes)

\* C8: every route of the collection has at least 2 geometry points.
C8_AtLeastTwoPoints ==
    \A i \in 1..Len(routes) : Len(routes[i].coordinates) >= 2

\* C9: a create whose required fields are invalid (name shorter than 3
\* characters, empty region, minAltitude < 0, maxAltitude <= 0, missing
\* difficulty, fewer than 2 points) ends in ValidationError with one
\* notification and without a network request, with or without a token.
C9_ValidationBeforeAuth ==
    [][ev'.op = "create" =>
       \A input \in CreateInputs :
        (/\ ~RequiredFieldsValid(input.points, input.options)
         /\ AddRoute(input.points, input.options))
            => /\ ev'.outcome = "ValidationError"
               /\ Len(ev'.toasts) = 1
               /\ ~ev'.net
               /\ pending' = pending]_vars

\* what deleteRoute of the transport layer reports for an answer
ReportsSuccess(answer) ==
    /\ answer.kind = "http"
    /\ answer.status \in 200..299
    /\ (answer.json => answer.body.success)

\* C10: a delete of a route whose id carries the local prefix removes it from
\* the collection, with or without a token and without a request; a delete
\* of another route with a token removes nothing when it is called, and its
\* answer removes the route exactly when the transport layer reports success.
C10_DeleteRemoves ==
    [][ev'.op = "delete" => \A id \in RouteIds :
        /\ (CarriesLocalPrefix(id) /\ DeleteRoute(id))
              => /\ id \notin Ids(routes')
                 /\ Len(routes') = Len(routes) - Cardinality({i \in 1..Len(routes) : routes[i].id = id})
                 /\ ~ev'.net
                 /\ pending' = pending
        /\ (~CarriesLocalPrefix(id) /\ token /\ DeleteRoute(id))
              => /\ routes' = routes
                 /\ ev'.net
        /\ \A answer \in DeleteAnswers :
              ResolveDelete(id, "hook", answer)
                 => IF ReportsSuccess(answer)
                    THEN id \notin Ids(routes')
                    ELSE routes' = routes]_vars

C10_Witness ==
    /\ ev.op = "delete"
    /\ ev.outcome = "success"
    /\ ev.net
    /\ routes # <<>>
    /\ ~(\E i \in 1..Len(routes) : routes[i].id = ID_R1)

\* the answers that carry an updated route
CarriesRoute(answer) ==
    answer.kind = "http" /\ answer.status = 200 /\ answer.body.success /\ IsSome(answer.body.data)

\* C11: when several remote updates of one route id are in flight at once,
\* nothing serializes or merges them: each response that succeeds is applied
\* when it resolves, whichever request it answers, so the store entry for the
\* id is the response that resolved last; the other requests stay in flight
\* and the other entries are untouched.
C11_LastResponseWins ==
    [][(ev'.op = "update" /\ ev'.outcome = "success" /\ ev'.net) =>
        \A request \in Issued, answer \in AllWriteAnswers :
            (OverlapResolveUpdate(request, answer) /\ CarriesRoute(answer)) =>
                /\ Len(routes') = Len(routes)
                /\ \A i \in 1..Len(routes) :
                      routes'[i] = IF routes[i].id = request.id
                                   THEN RouteResponseToFeature(answer.body.data[1])
                                   ELSE routes[i]
                /\ Issued' = Issued \ {request}]_vars

\* a later update of r1 has just been applied while the update of r1 issued
\* first is still awaited
C11_Witness ==
    /\ ev.op = "update" /\ ev.outcome = "success" /\ ev.net
    /\ Issued = {IssuedRequest("update", ID_R1, 1)}
    /\ \E i \in 1..Len(routes) : routes[i].id = ID_R1 /\ selectedRoute = Some(routes[i])

\* C12: no failure of the remote service escapes create, update or delete:
\* whatever the service answers (an error status, a body that says success:
\* false, a thrown transport exception), the call ends with a boolean, and
\* with false (SessionExpired or RemoteFailure) when the answer is a failure.
C12_FailureAbsorbed ==
    [][(ev'.op \in Writes /\ ev'.net /\ ev'.outcome # "pending") =>
        /\ ev'.outcome \in {"success", "SessionExpired", "RemoteFailure"}
        /\ \A id \in RouteIds, answer \in AllWriteAnswers \cup DeleteAnswers :
              (~ReportsSuccess(answer) /\ (\/ ResolveCreate("hook", answer)
                                          \/ ResolveUpdate(id, "hook", answer)
                                          \/ ResolveDelete(id, "hook", answer)))
                  => ev'.outcome \in {"SessionExpired", "RemoteFailure"}]_vars

\* a delete whose request met a failure has ended with false and one toast
C12_Witness ==
    /\ ev.op = "delete"
    /\ ev.net
    /\ ev.outcome = "RemoteFailure"
    /\ ev.toasts = <<"Error">>

\* C13: a delete that succeeds, local or remote, sets the selection to null
\* when the removed id is the selected one and leaves it unchanged otherwise;
\* the routes with any other id stay in the collection, in their order.
C13_RemoveFrame ==
    [][(ev'.op = "delete" /\ ev'.outcome = "success") =>
        \A id \in RouteIds :
            (DeleteRoute(id) \/ \E answer \in DeleteAnswers : ResolveDelete(id, "hook", answer))
                => /\ selectedRoute' = IF selectedRoute # None /\ selectedRoute[1].id = id
                                       THEN None ELSE selectedRoute
                   /\ routes' = SelectSeq(routes, LAMBDA r : r.id # id)]_vars

\* r1 has been deleted on the service while local-1 was selected: local-1 is
\* still selected and still in the collection
C13_Witness ==
    /\ ev.op = "delete" /\ ev.outcome = "success" /\ ev.net
    /\ selectedRoute # None
    /\ selectedRoute[1].id = ID_LOCAL
    /\ Ids(routes) = {ID_LOCAL}

\* C14: select(id) with an id that no route of the collection has leaves the
\* selection unchanged; with an id of the collection it makes a route of the
\* collection with that id the selected one; the collection never changes.
C14_SelectFrame ==
    [][ev'.op = "select" =>
        \A id \in RouteIds :
            SelectRoute(id) =>
                /\ routes' = routes
                /\ IF \E i \in 1..Len(routes) : routes[i].id = id
                   THEN /\ selectedRoute' # None
                        /\ selectedRoute'[1].id = id
                        /\ \E i \in 1..Len(routes) : routes[i] = selectedRoute'[1]
                   ELSE selectedRoute' = selectedRoute]_vars

\* select of an id that is not in the collection, with a route selected
C14_Witness ==
    /\ ev.op = "select" /\ ev.outcome = "none"
    /\ selectedRoute # None
    /\ \E id \in RouteIds : id \notin Ids(routes)

\* C15: a load that the service answers replaces the whole collection with
\* the loaded routes; it selects the first loaded route when the list is not
\* empty, and leaves the collection empty and the selection null when the
\* loaded list is empty.
C15_LoadReplaces ==
    [][(ev'.op = "load" /\ ev'.outcome # "pending") =>
        \A answer \in LoadAnswers :
            (answer.ok /\ ResolveLoad(answer)) =>
                LET loaded == ValidFeatures(answer.details)
                IN  /\ routes' = loaded
                    /\ selectedRoute' = IF Len(loaded) > 0 THEN Some(loaded[1]) ELSE None]_vars

\* C16: a remote update that succeeds upserts the response: an entry with the
\* id is replaced in its position and the other routes keep their order; when
\* no entry has the id as the response resolves, the route is inserted; in
\* both cases the updated route is the selected one and is in the collection.
C16_UpdateUpserts ==
    [][(ev'.op = "update" /\ ev'.outcome = "success" /\ ev'.net) =>
        \A id \in RouteIds, answer \in AllWriteAnswers :
            (CarriesRoute(answer) /\ ResolveUpdate(id, "hook", answer)) =>
                LET updatedRoute == RouteResponseToFeature(answer.body.data[1])
                IN  /\ selectedRoute' = Some(updatedRoute)
                    /\ \E i \in 1..Len(routes') : routes'[i] = updatedRoute
                    /\ (\E i \in 1..Len(routes) : routes[i].id = id) =>
                          /\ Len(routes') = Len(routes)
                          /\ \A i \in 1..Len(routes) :
                                routes'[i] = IF routes[i].id = id THEN updatedRoute
                                             ELSE routes[i]
                    /\ SelectSeq(routes', LAMBDA r : r.id # id) =
                          SelectSeq(routes, LAMBDA r : r.id # id)]_vars

\* C20: a remote create, update or delete that the service answers with 403
\* (the user lacks the needed role) ends in AuthRequired: onAuthRequired() is
\* invoked, the collection and the selection are unchanged and the call
\* returns false.
C20_ForbiddenAsksForAuth ==
    [][(ev'.op \in Writes /\ ev'.net /\ ev'.outcome # "pending") =>
        \A id \in RouteIds :
            (\/ ResolveCreate("hook", Http(403, None))
             \/ ResolveUpdate(id, "hook", Http(403, None))
             \/ ResolveDelete(id, "hook", Http(403, None)))
                => /\ ev'.auth = 1
                   /\ ev'.outcome \in Failures
                   /\ routes' = routes
                   /\ selectedRoute' = selectedRoute]_vars

\* C17: deletePoint(index) that would leave fewer than two points is refused
\* by the buffer itself, whoever calls it: the buffer is unchanged and failure
\* is reported; a delete that is carried out leaves at least two points.
C17_DeleteKeepsTwoPoints ==
    [][ev'.op = "deletePoint" =>
        \A index \in EditIndices :
            DeletePoint(index) =>
                /\ Len(editPoints) <= 2 => (editPoints' = editPoints /\ ev'.outcome = "rejected")
                /\ ev'.outcome = "done" => (Len(editPoints') = Len(editPoints) - 1 /\ Len(editPoints') >= 2)
                /\ ev'.outcome = "rejected" => editPoints' = editPoints]_vars

\* deletePoint has been refused on a buffer of two points
C17_Witness ==
    /\ ev.op = "deletePoint"
    /\ ev.outcome = "rejected"
    /\ isEditing
    /\ Len(editPoints) = 2

\* the number of times x occurs in a buffer
Occurrences(points, x) == Cardinality({k \in 1..Len(points) : points[k] = x})

\* C18: movePoint(from, to) keeps the length of the buffer and the multiset
\* of its points for every pair of indices in range, and leaves the buffer as
\* it is when either index is out of range.
C18_MovePreservesPoints ==
    [][ev'.op = "movePoint" =>
        /\ Len(editPoints') = Len(editPoints)
        /\ \A k \in 1..Len(editPoints) :
              Occurrences(editPoints', editPoints[k]) = Occurrences(editPoints, editPoints[k])
        /\ editPoints' # editPoints =>
              \A from \in EditIndices, to \in EditIndices :
                  MovePoint(from, to) =>
                      /\ from >= 0 /\ from < Len(editPoints)
                      /\ to >= 0 /\ to < Len(editPoints)]_vars

\* the first point of the seeded buffer <<PA, PB, PC>> has been moved to the end
C18_Witness ==
    /\ ev.op = "movePoint"
    /\ isEditing
    /\ editPoints = <<PB, PC, PA>>

\* C19: updatePoint(index, c) with index in range replaces exactly the point
\* at index and keeps the length and every other point; with index out of
\* range (negative, or the length or more) the buffer is unchanged.
C19_UpdatePointFrame ==
    [][ev'.op = "editPointDrag" =>
        \A index \in EditIndices, coords \in EditCoords :
            HandleEditPointDrag(index, coords) =>
                IF index >= 0 /\ index < Len(editPoints)
                THEN /\ Len(editPoints') = Len(editPoints)
                     /\ \A k \in 1..Len(editPoints) :
                           editPoints'[k] = IF k = index + 1 THEN coords ELSE editPoints[k]
                ELSE editPoints' = editPoints]_vars

\* C21: every route that a successful create or update has put into the
\* collection has durationSeconds = (distanceMeters / 1000) * 72, whatever
\* durationDays the caller supplied (the model keeps duration in thousandths
\* of a second, so the identity reads duration = distance * 72).
C21_DurationFromDistance ==
    [][(ev'.op \in {"create", "update"} /\ ev'.outcome = "success") =>
        \A i \in 1..Len(routes') :
            (i > Len(routes) \/ routes'[i] # routes[i])
                => routes'[i].duration = routes'[i].distance * 72]_vars

\* C22: every route whose geometry a successful create or update (local or
\* remote) has written carries waypoints recomputed from that geometry: one
\* per point in the same order, order = index, named "Start" at index 0,
\* "End" at the last index and "Point {index+1}" in between.
C22_WaypointsFollowGeometry ==
    [][(ev'.op \in {"create", "update"} /\ ev'.outcome = "success") =>
        \A i \in 1..Len(routes') :
            (i > Len(routes) \/ routes'[i] # routes[i]) =>
                LET coords == routes'[i].coordinates
                    wps == routes'[i].waypoints
                IN  /\ wps # None
                    /\ Len(wps[1]) = Len(coords)
                    /\ \A k \in 1..Len(coords) :
                          /\ wps[1][k].lng = coords[k][1]
                          /\ wps[1][k].lat = coords[k][2]
                          /\ wps[1][k].order = k - 1
                          /\ wps[1][k].name = IF k = 1 THEN <<"Start">>
                                               ELSE IF k = Len(coords) THEN <<"End">>
                                               ELSE <<"Point ", k>>]_vars

\* C23: a remote delete that the service answers with 401 is classified as
\* a 401 on create or update is: SessionExpired, onAuthRequired() invoked
\* exactly once, and the route still in the collection.
C23_DeleteSessionExpired ==
    [][(ev'.op = "delete" /\ ev'.net /\ ev'.outcome # "pending") =>
        \A id \in RouteIds :
            ResolveDelete(id, "hook", Http(401, None))
                => /\ ev'.outcome = "SessionExpired"
                   /\ ev'.auth = 1
                   /\ routes' = routes]_vars

\* C24: an update of a route with a local id applies every metadata field
\* the caller supplies (name, region, altitude bounds, difficulty, trekName,
\* durationDays) to the stored route and leaves every field the caller does
\* not supply at its existing value.
C24_LocalUpdateMetadata ==
    [][ev'.op = "update" =>
        \A id \in RouteIds, points \in PointLists, options \in UpdateOptions :
            (CarriesLocalPrefix(id) /\ UpdateRoute(id, points, options)) =>
                \A i \in 1..Len(routes) :
                    routes[i].id = id =>
                        /\ routes'[i].routeName = Coalesce(options.name, routes[i].routeName)
                        /\ routes'[i].region = Coalesce(options.region, routes[i].region)
                        /\ routes'[i].minAltitude = Coalesce(options.minAltitude, routes[i].minAltitude)
                        /\ routes'[i].maxAltitude = Coalesce(options.maxAltitude, routes[i].maxAltitude)
                        /\ routes'[i].roadType = Coalesce(options.difficultyLevel, routes[i].roadType)
                        /\ routes'[i].trekName = IF IsSome(options.trekName) THEN options.trekName
                                                 ELSE routes[i].trekName
                        /\ routes'[i].durationDays = IF IsSome(options.durationDays)
                                                     THEN options.durationDays
                                                     ELSE routes[i].durationDays]_vars

\* C25: the coordinate conversions round-trip. A save of the edit buffer
\* right after it was seeded from the selected route builds a request whose
\* geometry is the route's own, point for point, and a local update stores
\* that geometry; a save of the drawing buffer sends each point as
\* [lng, lat]. No pair is stored or sent with its members swapped.
C25_CoordinatesRoundTrip ==
    [][/\ (ev.op = "startEdit" /\ isEditing /\ selectedRoute # None /\ ev'.op = "update") =>
            \A options \in UpdateOptions :
                SaveEdit(options) =>
                    LET original == selectedRoute[1].coordinates
                        id == selectedRoute[1].id
                    IN  /\ UpdateRequest(editPoints, options, FindRoute(routes, id)).geometryCoordinates
                              = original
                        /\ (ev'.outcome = "success" /\ ~ev'.net) =>
                              \A i \in 1..Len(routes) :
                                  routes[i].id = id => routes'[i].coordinates = original
       /\ (isDrawing /\ ev'.op = "create" /\ SaveRoute(ValidOptions)) =>
            LET sent == CreateRequest(drawnPoints, ValidOptions).geometryCoordinates
            IN  /\ Len(sent) = Len(drawnPoints)
                /\ \A k \in 1..Len(drawnPoints) :
                      sent[k] = <<drawnPoints[k].lng, drawnPoints[k].lat>>]_vars

\* local-1 has been saved from an edit session and holds its original
\* geometry, [lng, lat] of (0,0), (0,1), (1,1)
C25_Witness ==
    /\ ev.op = "update" /\ ev.outcome = "success" /\ ~ev.net
    /\ ~isEditing
    /\ \E i \in 1..Len(routes) :
          /\ routes[i].id = ID_LOCAL
          /\ routes[i].waypoints # None
          /\ routes[i].coordinates = <<<<0, 0>>, <<1, 0>>, <<1, 1>>>>

\* C26: no operation on a point buffer (append by a click on the map, drag
\* of a point, undo, clear, delete, move) and no start or cancel of an
\* editing session changes a stored route or the selection; a cancel leaves
\* the buffer empty and the editing mode off.
C26_BufferLeavesStore ==
    [][ev'.op \in {"page", "startEdit", "cancelEdit", "editPointDrag", "deletePoint", "movePoint"} =>
        /\ routes' = routes
        /\ selectedRoute' = selectedRoute
        /\ ev'.op = "cancelEdit" => (editPoints' = <<>> /\ ~isEditing')]_vars

\* an editing session has been cancelled with a route selected
C26_Witness ==
    /\ ev.op = "cancelEdit"
    /\ ~isEditing
    /\ editPoints = <<>>
    /\ routes # <<>>
    /\ selectedRoute # None

\* C27: drawing mode and editing mode are never active at the same time, in
\* every state reachable through toggle-drawing, start-edit, cancel-edit,
\* save-route and save-edit.
C27_OneModeAtATime == ~(isDrawing /\ isEditing)

\* start-edit has been asked for while drawing, with a route selected, and
\* was refused
C27_Witness ==
    /\ ev.op = "startEdit"
    /\ isDrawing
    /\ selectedRoute # None
    /\ ~isEditing

\* C29: when a save started from the page ends (handleSaveRoute for a draw,
\* handleSaveEdit for an edit), with true or with false, the session is
\* ended: the mode flag is false and the point buffer is empty, the points
\* added while the save was in flight included.
C29_SaveEndsSession ==
    [][(ev'.op \in {"create", "update"} /\ ev'.outcome \in Terminal) =>
        /\ ev'.op = "create" => (~isDrawing' /\ drawnPoints' = <<>>)
        /\ ev'.op = "update" => (~isEditing' /\ editPoints' = <<>>)]_vars

\* a save of a drawing has ended with false and the drawing session is over
C29_Witness ==
    /\ ev.op = "create" /\ ev.net
    /\ ev.outcome \in {"SessionExpired", "RemoteFailure"}
    /\ ~isDrawing
    /\ drawnPoints = <<>>

\* C30: createRoute, updateRoute and deleteRoute of the transport send no
\* request when no token is stored (after a logout in particular): they
\* return success = false with the "Not authenticated" message, and the hook
\* classifies that as SessionExpired and asks for authentication.
C30_NoTokenNoRequest ==
    [][(~token /\ ev'.op \in Writes) =>
        LET refused == /\ pending' = pending
                       /\ ~ev'.net
                       /\ ev'.outcome = "SessionExpired"
                       /\ ev'.toasts = <<"Session Expired">>
                       /\ ev'.auth = 1
                       /\ routes' = routes
        IN  \/ refused
            \/ ~ \E id \in RouteIds :
                    \/ \E input \in CreateInputs :
                           ApiCreateRoute(input.points, input.options)
                    \/ \E points \in PointLists, options \in UpdateOptions :
                           ApiUpdateRoute(id, points, options)
                    \/ ApiDeleteRoute(id)]_vars

\* a delete has been asked of the transport with no token stored
C30_Witness ==
    /\ ev.op = "delete"
    /\ ~ev.net
    /\ ev.outcome = "SessionExpired"
    /\ ~token
    /\ pending = EmptyBag

\* C28: no two routes of the collection share an id, in every state
\* reachable through load, create, update and delete, whatever ids the
\* service returns in its responses.
C28_DistinctRouteIds ==
    \A i, j \in 1..Len(routes) : i < j => routes[i].id # routes[j].id

=============================================================================
